---- MODULE Spec2Model ----
(***************************************************************************)
(* State-machine model of manuscripteditorv1.py, a Streamlit script.  Every *)
(* user interaction (editing a widget, clicking a button) triggers one run *)
(* of the whole script; each action below is one such interaction together *)
(* with the complete script run (and the st.rerun() run) that it causes.   *)
(*                                                                         *)
(* Texts are sequences of tokens: a token is a chunk of characters, and    *)
(* the token " " is a whitespace character.  The empty text is << >>.      *)
(***************************************************************************)
EXTENDS Integers, Sequences, FiniteSets, TLC

VARIABLES
    openai_api_key,        \* st.session_state.openai_api_key ("" = not set)
    anthropic_api_key,     \* st.session_state.anthropic_api_key
    selected_models,       \* value of the model multiselect, in selection order
    editor_name,           \* value of the "Editor Persona" text input
    manuscript_input,      \* value of the manuscript text area
    uploaded_file,         \* << >> (None) or <<content>> (an uploaded file)
    editor_prompt,         \* value of the feedback-request text area
    conversation_history,  \* st.session_state.conversation_history (ordered dict)
    feedback_generated,    \* st.session_state.feedback_generated
    calls,                 \* the get_ai_response calls made by the last interaction
    doc,                   \* the export document built by the last run (<< >> = none)
    discarded,             \* the sessions the last interaction threw away (lines
                           \* 202 and 374), as <<model, number of turns>> pairs
    runs,                  \* the number of interactions handled so far
    last_action,           \* the user interaction handled last: its kind (Edit,
                           \* StartSession, ContinueSession, NewSession) and model
    outcome                \* what the page reports after the last script run

vars == <<openai_api_key, anthropic_api_key, selected_models, editor_name,
          manuscript_input, uploaded_file, editor_prompt, conversation_history,
          feedback_generated, calls, doc, discarded, runs, last_action, outcome>>

-----------------------------------------------------------------------------
(* Bounds of the model *)

\* user interactions (script runs) explored after the page is opened
MaxRuns == 7

\* values the user types into the widgets
ApiKeys == {"", "sk"}
PersonaNames == {<<"Nan Graham">>, <<"Maxwell Perkins">>}
ManuscriptTexts == {<< >>, <<"Chapter one.">>}
FileContents == {<<"Uploaded chapter.">>}
FeedbackPrompts == {<< >>, <<"Is the pacing too fast?">>}
FollowUpTexts == {<< >>, <<" ">>, <<"Give me an example.">>}

\* what a provider does with one request: a message, or a raised exception
ProviderReplies ==
    { [ok |-> TRUE,  text |-> <<" ", "The pacing works well.", " ">>],
      [ok |-> FALSE, text |-> <<"Connection error.">>] }

-----------------------------------------------------------------------------
(* Program constants *)

openai_models == <<"gpt-4o", "gpt-4.1">>
anthropic_models == <<"claude-sonnet-4-20250514">>

\* the prefix "X Error:" of line 191 (the cross mark is written (x) here)
ErrorMarker == <<"(x) Error:">>

DefaultEditorName == <<"Nan Graham">>

NoneText == <<"None">>

-----------------------------------------------------------------------------
(* Text and list helpers *)

Range(s) == {s[i] : i \in 1..Len(s)}

IsWhitespace(t) == t = " "

\* str.strip(): drop leading and trailing whitespace
RECURSIVE LStrip(_)
LStrip(s) ==
    IF s # << >> /\ IsWhitespace(Head(s)) THEN LStrip(Tail(s)) ELSE s

RECURSIVE RStrip(_)
RStrip(s) ==
    IF s # << >> /\ IsWhitespace(s[Len(s)])
    THEN RStrip(SubSeq(s, 1, Len(s) - 1))
    ELSE s

Strip(s) == RStrip(LStrip(s))

\* str.startswith
StartsWith(s, prefix) ==
    /\ Len(s) >= Len(prefix)
    /\ SubSeq(s, 1, Len(prefix)) = prefix

-----------------------------------------------------------------------------
(* The ordered dict conversation_history: a sequence of [key, value]       *)
(* entries in insertion order.                                             *)

DictKeys(d) == [i \in 1..Len(d) |-> d[i].key]

DictHas(d, k) == \E i \in 1..Len(d) : d[i].key = k

DictGet(d, k) == d[CHOOSE i \in 1..Len(d) : d[i].key = k].value

\* d[k] = v: replaces in place, or appends a new key at the end
DictSet(d, k, v) ==
    IF DictHas(d, k)
    THEN [i \in 1..Len(d) |-> IF d[i].key = k THEN [key |-> k, value |-> v] ELSE d[i]]
    ELSE Append(d, [key |-> k, value |-> v])

\* d[k]["messages"].append(m)
AppendMessage(d, k, m) ==
    DictSet(d, k, [DictGet(d, k) EXCEPT !.messages = Append(@, m)])

Message(role, content) == [role |-> role, content |-> content]

-----------------------------------------------------------------------------
(* Lines 94-129: clients and model choice *)

\* faulty variant of available_models: one key makes every model available
available_modelsAnyKey(okey, akey) ==
    IF okey # "" \/ akey # "" THEN openai_models \o anthropic_models ELSE << >>

available_models(okey, akey) ==
    (IF okey # "" THEN openai_models ELSE << >>)
        \o (IF akey # "" THEN anthropic_models ELSE << >>)

\* Lines 153-154: an uploaded file replaces the pasted text
ManuscriptText(text, file) == IF file # << >> THEN file[1] ELSE text

\* Line 207
system_prompt(name) ==
    <<"You are a brilliant fiction editor named ">> \o name
        \o <<". Provide constructive, detailed feedback on the user's manuscript. Be specific, actionable, and encouraging while identifying areas for improvement.">>

\* Line 208
initial_message(manuscript, prompt) ==
    <<"Manuscript:\n">> \o manuscript \o <<"\n\nFeedback Request:\n">> \o prompt

-----------------------------------------------------------------------------
(* Lines 166-191: get_ai_response.  reply is what the provider does with   *)
(* the request; okey and akey decide whether the clients exist.            *)

ErrorText(e) == ErrorMarker \o <<" ">> \o e

\* faulty variant of get_ai_response: the exception text is returned without
\* the error prefix
get_ai_responseNoMarker(model, messages, sysprompt, okey, akey, reply) ==
    IF model \in Range(openai_models)
    THEN IF okey = "" THEN <<"'NoneType' object has no attribute 'chat'">>
         ELSE IF reply.ok THEN Strip(reply.text)
         ELSE reply.text
    ELSE IF model \in Range(anthropic_models)
    THEN IF akey = "" THEN <<"'NoneType' object has no attribute 'messages'">>
         ELSE IF reply.ok THEN Strip(reply.text)
         ELSE reply.text
    ELSE NoneText

get_ai_response(model, messages, sysprompt, okey, akey, reply) ==
    IF model \in Range(openai_models)
    THEN IF okey = "" THEN ErrorText(<<"'NoneType' object has no attribute 'chat'">>)
         ELSE IF reply.ok THEN Strip(reply.text)
         ELSE ErrorText(reply.text)
    ELSE IF model \in Range(anthropic_models)
    THEN IF akey = "" THEN ErrorText(<<"'NoneType' object has no attribute 'messages'">>)
         ELSE IF reply.ok THEN Strip(reply.text)
         ELSE ErrorText(reply.text)
    ELSE NoneText

\* the record of one call, kept in calls: the arguments, what the provider
\* did with the request, and the value returned
Call(model, messages, sysprompt, reply, response) ==
    [model |-> model, messages |-> messages, system_prompt |-> sysprompt,
     reply |-> reply, response |-> response]

-----------------------------------------------------------------------------
(* Lines 200-225: the run_button handler with valid input (StartSession).  *)
(* replies[m] is what m's provider does with the request.                  *)

\* faulty variant of StartIteration: a failed call leaves no assistant turn
StartIterationSkipError(hist, model, sysprompt, initial, reply, okey, akey) ==
    LET h1 == DictSet(hist, model,
                      [messages |-> <<Message("user", initial)>>,
                       system_prompt |-> sysprompt])
        messages == DictGet(h1, model).messages
        response == get_ai_response(model, messages, sysprompt, okey, akey, reply)
    IN  [hist |-> IF StartsWith(response, ErrorMarker) THEN h1
                  ELSE AppendMessage(h1, model, Message("assistant", response)),
         call |-> Call(model, messages, sysprompt, reply, response)]

\* Lines 215-221: the loop body for one model
StartIteration(hist, model, sysprompt, initial, reply, okey, akey) ==
    LET h1 == DictSet(hist, model,
                      [messages |-> <<Message("user", initial)>>,
                       system_prompt |-> sysprompt])
        messages == DictGet(h1, model).messages
        response == get_ai_response(model, messages, sysprompt, okey, akey, reply)
        h2 == AppendMessage(h1, model, Message("assistant", response))
    IN  [hist |-> h2, call |-> Call(model, messages, sysprompt, reply, response)]

\* faulty variant of StartLoop: the first failed call ends the loop
RECURSIVE StartLoopAbortOnError(_, _, _, _, _, _, _, _, _)
StartLoopAbortOnError(hist, made, i, sel, sysprompt, initial, replies, okey, akey) ==
    IF i > Len(sel) THEN [hist |-> hist, calls |-> made]
    ELSE CHOOSE r \in
             { IF StartsWith(it.call.response, ErrorMarker)
               THEN [hist |-> it.hist, calls |-> Append(made, it.call)]
               ELSE StartLoopAbortOnError(it.hist, Append(made, it.call), i + 1, sel,
                                          sysprompt, initial, replies, okey, akey) :
               it \in {StartIteration(hist, sel[i], sysprompt, initial,
                                      replies[sel[i]], okey, akey)} } : TRUE

\* Lines 210-221.  CHOOSE r \in {e(it) : it \in {x}} : TRUE is e(x), with x
\* evaluated once.
RECURSIVE StartLoop(_, _, _, _, _, _, _, _, _)
StartLoop(hist, made, i, sel, sysprompt, initial, replies, okey, akey) ==
    IF i > Len(sel) THEN [hist |-> hist, calls |-> made]
    ELSE CHOOSE r \in
             { StartLoop(it.hist, Append(made, it.call), i + 1, sel,
                         sysprompt, initial, replies, okey, akey) :
               it \in {StartIteration(hist, sel[i], sysprompt, initial,
                                      replies[sel[i]], okey, akey)} } : TRUE

\* faulty variant of StartSession: line 202 is missing
StartSessionNoReset(hist, sel, name, manuscript, prompt, replies, okey, akey) ==
    StartLoop(hist, << >>, 1, sel, system_prompt(name),
              initial_message(manuscript, prompt), replies, okey, akey)

\* Line 202 resets the history; hist is the history before the click
StartSession(hist, sel, name, manuscript, prompt, replies, okey, akey) ==
    StartLoop(<< >>, << >>, 1, sel, system_prompt(name),
              initial_message(manuscript, prompt), replies, okey, akey)

-----------------------------------------------------------------------------
(* Lines 262-278 and 310-326: the follow-up handler with non-blank text    *)
(* (ContinueSession)                                                       *)

\* faulty variant of ContinueSession: a failed call leaves no assistant turn
ContinueSessionDropError(hist, model, follow_up, reply, okey, akey) ==
    LET h1 == AppendMessage(hist, model, Message("user", follow_up))
        messages == DictGet(h1, model).messages
        sysprompt == DictGet(h1, model).system_prompt
        response == get_ai_response(model, messages, sysprompt, okey, akey, reply)
    IN  [hist |-> IF StartsWith(response, ErrorMarker) THEN h1
                  ELSE AppendMessage(h1, model, Message("assistant", response)),
         calls |-> <<Call(model, messages, sysprompt, reply, response)>>]

\* faulty variant of ContinueSession: the follow-up goes into every session
ContinueSessionBroadcast(hist, model, follow_up, reply, okey, akey) ==
    LET h1 == [i \in 1..Len(hist) |->
                  [hist[i] EXCEPT !.value.messages =
                                      Append(@, Message("user", follow_up))]]
        messages == DictGet(h1, model).messages
        sysprompt == DictGet(h1, model).system_prompt
        response == get_ai_response(model, messages, sysprompt, okey, akey, reply)
        h2 == AppendMessage(h1, model, Message("assistant", response))
    IN  [hist |-> h2, calls |-> <<Call(model, messages, sysprompt, reply, response)>>]

\* faulty variant of ContinueSession: the system prompt is built again from
\* the persona field
ContinueSessionCurrentPersona(hist, model, follow_up, reply, okey, akey) ==
    LET h1 == AppendMessage(hist, model, Message("user", follow_up))
        messages == DictGet(h1, model).messages
        sysprompt == system_prompt(editor_name)
        response == get_ai_response(model, messages, sysprompt, okey, akey, reply)
        h2 == AppendMessage(h1, model, Message("assistant", response))
    IN  [hist |-> h2, calls |-> <<Call(model, messages, sysprompt, reply, response)>>]

\* faulty variant of ContinueSession: the adapter is called before the
\* follow-up is appended
ContinueSessionCallFirst(hist, model, follow_up, reply, okey, akey) ==
    LET messages == DictGet(hist, model).messages
        sysprompt == DictGet(hist, model).system_prompt
        response == get_ai_response(model, messages, sysprompt, okey, akey, reply)
        h1 == AppendMessage(hist, model, Message("user", follow_up))
        h2 == AppendMessage(h1, model, Message("assistant", response))
    IN  [hist |-> h2, calls |-> <<Call(model, messages, sysprompt, reply, response)>>]

\* faulty variant of ContinueSession: only the follow-up is sent to the adapter
ContinueSessionOnlyFollowUp(hist, model, follow_up, reply, okey, akey) ==
    LET h1 == AppendMessage(hist, model, Message("user", follow_up))
        messages == <<Message("user", follow_up)>>
        sysprompt == DictGet(h1, model).system_prompt
        response == get_ai_response(model, messages, sysprompt, okey, akey, reply)
        h2 == AppendMessage(h1, model, Message("assistant", response))
    IN  [hist |-> h2, calls |-> <<Call(model, messages, sysprompt, reply, response)>>]

ContinueSession(hist, model, follow_up, reply, okey, akey) ==
    LET h1 == AppendMessage(hist, model, Message("user", follow_up))
        messages == DictGet(h1, model).messages
        sysprompt == DictGet(h1, model).system_prompt
        response == get_ai_response(model, messages, sysprompt, okey, akey, reply)
        h2 == AppendMessage(h1, model, Message("assistant", response))
    IN  [hist |-> h2, calls |-> <<Call(model, messages, sysprompt, reply, response)>>]

-----------------------------------------------------------------------------
(* Lines 228-328: the results view.  click is "send" when the Send button  *)
(* of clicked_model was pressed.  The result tells how the view ended:     *)
(* "ok", "warning" (line 280/328), "KeyError" (the lookup of line 238/288  *)
(* raised), "warning, KeyError" (the warning of one tab, then the KeyError *)
(* of a later tab) or "rerun" (st.rerun() of line 278/326).                *)

\* faulty variant of FollowUpHandler: the text is tested without strip()
FollowUpHandlerNoStrip(hist, model, follow_up, reply, okey, akey) ==
    IF follow_up # << >>
    THEN LET r == ContinueSession(hist, model, follow_up, reply, okey, akey)
         IN  [hist |-> r.hist, calls |-> r.calls, outcome |-> "rerun"]
    ELSE [hist |-> hist, calls |-> << >>, outcome |-> "warning"]

\* Lines 262-280 and 310-328
FollowUpHandler(hist, model, follow_up, reply, okey, akey) ==
    IF Strip(follow_up) # << >>
    THEN LET r == ContinueSession(hist, model, follow_up, reply, okey, akey)
         IN  [hist |-> r.hist, calls |-> r.calls, outcome |-> "rerun"]
    ELSE [hist |-> hist, calls |-> << >>, outcome |-> "warning"]

\* Lines 235-280: one tab per selected model
RECURSIVE Tabs(_, _, _, _, _, _, _, _, _, _)
Tabs(i, warned, hist, sel, click, clicked_model, follow_up, reply, okey, akey) ==
    IF i > Len(sel)
    THEN [hist |-> hist, calls |-> << >>,
          outcome |-> IF warned THEN "warning" ELSE "ok"]
    ELSE IF ~DictHas(hist, sel[i])
    THEN [hist |-> hist, calls |-> << >>,
          outcome |-> IF warned THEN "warning, KeyError" ELSE "KeyError"]
    ELSE IF click = "send" /\ clicked_model = sel[i]
    THEN LET r == FollowUpHandler(hist, sel[i], follow_up, reply, okey, akey)
         IN  IF r.outcome = "rerun" THEN r
             ELSE Tabs(i + 1, TRUE, hist, sel, click, clicked_model,
                       follow_up, reply, okey, akey)
    ELSE Tabs(i + 1, warned, hist, sel, click, clicked_model,
              follow_up, reply, okey, akey)

\* Lines 284-328: the single-model interface
SingleModel(hist, sel, click, clicked_model, follow_up, reply, okey, akey) ==
    LET model == sel[1]
    IN  IF ~DictHas(hist, model)
        THEN [hist |-> hist, calls |-> << >>, outcome |-> "KeyError"]
        ELSE IF click = "send" /\ clicked_model = model
        THEN FollowUpHandler(hist, model, follow_up, reply, okey, akey)
        ELSE [hist |-> hist, calls |-> << >>, outcome |-> "ok"]

ResultsView(hist, sel, click, clicked_model, follow_up, reply, okey, akey) ==
    IF Len(sel) > 1
    THEN Tabs(1, FALSE, hist, sel, click, clicked_model, follow_up, reply, okey, akey)
    ELSE SingleModel(hist, sel, click, clicked_model, follow_up, reply, okey, akey)

\* the Send buttons the page shows: those reached before a KeyError
SendButtons(hist, fg, sel) ==
    IF ~(fg /\ hist # << >>) \/ sel = << >> THEN {}
    ELSE IF Len(sel) > 1
    THEN {sel[i] : i \in {j \in 1..Len(sel) :
                            \A k \in 1..j : DictHas(hist, sel[k])}}
    ELSE IF DictHas(hist, sel[1]) THEN {sel[1]} ELSE {}

-----------------------------------------------------------------------------
(* Lines 334-357: the export document, a sequence of blocks *)

Heading(text, level) == [kind |-> "heading", level |-> level, text |-> text]

Paragraph(text) == [kind |-> "paragraph", level |-> 0, text |-> text]

\* faulty variant of ExportMessage: the test for the error marker is missing
ExportMessageNoErrorCheck(message, j) ==
    (IF message.role = "user"
     THEN <<Heading(IF j = 1 THEN <<"Original Request">>
                    ELSE <<"Follow-up Question">>, 2),
            Paragraph(message.content)>>
     ELSE IF message.role = "assistant"
     THEN <<Heading(<<"Response">>, 2), Paragraph(message.content)>>
     ELSE << >>)
    \o <<Paragraph(<< >>)>>

\* Lines 348-357: the blocks of one message; j counts from 1 here, from 0
\* in the source
ExportMessage(message, j) ==
    (IF message.role = "user"
     THEN <<Heading(IF j = 1 THEN <<"Original Request">>
                    ELSE <<"Follow-up Question">>, 2),
            Paragraph(message.content)>>
     ELSE IF message.role = "assistant"
             /\ ~StartsWith(message.content, ErrorMarker)
     THEN <<Heading(<<"Response">>, 2), Paragraph(message.content)>>
     ELSE << >>)
    \o <<Paragraph(<< >>)>>

\* Line 347
RECURSIVE ExportMessages(_, _)
ExportMessages(messages, j) ==
    IF j > Len(messages) THEN << >>
    ELSE ExportMessage(messages[j], j) \o ExportMessages(messages, j + 1)

\* Lines 343-357
RECURSIVE ExportSections(_, _, _)
ExportSections(sel, hist, i) ==
    IF i > Len(sel) THEN << >>
    ELSE (IF DictHas(hist, sel[i])
          THEN <<Heading(<<"Conversation with ", sel[i]>>, 1)>>
                   \o ExportMessages(DictGet(hist, sel[i]).messages, 1)
          ELSE << >>)
         \o ExportSections(sel, hist, i + 1)

ExportDocument(name, prompt, manuscript, sel, hist) ==
    << Heading(<<"AI Manuscript Editor - Full Conversation">>, 0),
       Paragraph(<<"Editor Persona: ">> \o name),
       Paragraph(<<"Original Feedback Request: ">> \o prompt),
       Paragraph(<< >>),
       Heading(<<"Original Manuscript Excerpt">>, 1),
       Paragraph(manuscript),
       Paragraph(<< >>) >>
    \o ExportSections(sel, hist, 1)

-----------------------------------------------------------------------------
(* One run of the script, lines 94-376, for the widget values given.       *)
(* click is "none", "run", "send" or "new": the button pressed.  The       *)
(* result is the session state after the run (and after the run that       *)
(* st.rerun() starts), the calls made, the export document and what the    *)
(* page reports: "stopped" (st.stop() of line 117/129), "InputIncomplete"  *)
(* (st.error of line 199), "warning" (line 280/328), "KeyError" (the       *)
(* uncaught exception of line 238/288).                                    *)

Result(hist, fg, made, document, how) ==
    [hist |-> hist, fg |-> fg, calls |-> made, doc |-> document, outcome |-> how]

\* Lines 228-376 of a run in which no button is pressed
Render(hist, fg, made, sel, name, manuscript, prompt, okey, akey) ==
    IF ~(fg /\ hist # << >>) THEN Result(hist, fg, made, << >>, {})
    ELSE LET v == ResultsView(hist, sel, "none", "", << >>,
                              [ok |-> FALSE, text |-> << >>], okey, akey)
         IN  IF v.outcome = "KeyError"
             THEN Result(hist, fg, made, << >>, {"KeyError"})
             ELSE Result(hist, fg, made,
                         ExportDocument(name, prompt, manuscript, sel, hist), {})

\* faulty variant of RunButton: the history is reset before the inputs are
\* validated
RunButtonResetFirst(hist, fg, sel, name, manuscript, prompt, replies, okey, akey) ==
    IF manuscript = << >> \/ prompt = << >>
    THEN [hist |-> << >>, fg |-> fg, calls |-> << >>, outcome |-> {"InputIncomplete"}]
    ELSE CHOOSE b \in
             { [hist |-> r.hist, fg |-> TRUE, calls |-> r.calls, outcome |-> {}] :
               r \in {StartSession(hist, sel, name, manuscript, prompt,
                                   replies, okey, akey)} } : TRUE

\* Lines 197-225
RunButton(hist, fg, sel, name, manuscript, prompt, replies, okey, akey) ==
    IF manuscript = << >> \/ prompt = << >>
    THEN [hist |-> hist, fg |-> fg, calls |-> << >>, outcome |-> {"InputIncomplete"}]
    ELSE CHOOSE b \in
             { [hist |-> r.hist, fg |-> TRUE, calls |-> r.calls, outcome |-> {}] :
               r \in {StartSession(hist, sel, name, manuscript, prompt,
                                   replies, okey, akey)} } : TRUE

\* faulty variant of NewSessionButton: the flag is not reset
NewSessionButtonKeepFlag(hist, fg) == [hist |-> << >>, fg |-> fg]

\* Lines 373-376
NewSessionButton(hist, fg) == [hist |-> << >>, fg |-> FALSE]

\* Lines 228-376 of a run whose run_button part ended as b
ScriptView(b, click, clicked_model, follow_up, replies, okey, akey, sel, name, manuscript, prompt) ==
    IF ~(b.fg /\ b.hist # << >>)
    THEN Result(b.hist, b.fg, b.calls, << >>, b.outcome)
    ELSE CHOOSE r \in
        { IF v.outcome = "KeyError"
          THEN Result(b.hist, b.fg, b.calls, << >>, b.outcome \cup {"KeyError"})
          ELSE IF v.outcome = "warning, KeyError"
          THEN Result(b.hist, b.fg, b.calls, << >>,
                      b.outcome \cup {"warning", "KeyError"})
          ELSE IF v.outcome = "rerun"
          THEN Render(v.hist, b.fg, v.calls, sel, name, manuscript, prompt,
                      okey, akey)
          ELSE IF click = "new"
          THEN Render(NewSessionButton(b.hist, b.fg).hist,
                      NewSessionButton(b.hist, b.fg).fg,
                      << >>, sel, name, manuscript, prompt, okey, akey)
          ELSE Result(b.hist, b.fg, b.calls,
                      ExportDocument(name, prompt, manuscript, sel, b.hist),
                      b.outcome
                          \cup (IF v.outcome = "warning" THEN {"warning"} ELSE {})) :
          v \in {ResultsView(b.hist, sel, click, clicked_model, follow_up,
                             IF click = "send" THEN replies[clicked_model]
                             ELSE [ok |-> FALSE, text |-> << >>], okey, akey)} } :
        TRUE

Script(click, clicked_model, follow_up, replies, hist, fg, okey, akey, sel, name, text, file, prompt) ==
    IF available_models(okey, akey) = << >> \/ sel = << >>
    THEN Result(hist, fg, << >>, << >>, {"stopped"})
    ELSE CHOOSE r \in
        { ScriptView(b, click, clicked_model, follow_up, replies, okey, akey,
                     sel, name, ManuscriptText(text, file), prompt) :
          b \in {IF click = "run"
                 THEN RunButton(hist, fg, sel, name, ManuscriptText(text, file),
                                prompt, replies, okey, akey)
                 ELSE [hist |-> hist, fg |-> fg, calls |-> << >>,
                       outcome |-> {}]} } : TRUE

-----------------------------------------------------------------------------
(* State *)

Action(op, model) == [op |-> op, model |-> model]

NoReplies == [m \in {} |-> [ok |-> FALSE, text |-> << >>]]

\* lists of distinct models of the list avail, in any order (the multiselect
\* of line 120 returns the options in the order the user picked them)
Selections(avail) ==
    UNION { {s \in [1..n -> Range(avail)] :
                \A i, j \in 1..n : i # j => s[i] # s[j]} : n \in 0..Len(avail) }

\* the page shows the persona, manuscript and prompt widgets (lines 133-163)
\* and the run button (line 195)
InputsShown ==
    /\ available_models(openai_api_key, anthropic_api_key) # << >>
    /\ selected_models # << >>

\* One interaction: the widget values after it, the button pressed, and the
\* script run.  A multiselect whose options change is a new widget and shows
\* its default (line 123); a widget the run does not reach (st.stop()) loses
\* its value and shows its default when it is drawn again.
Interaction(act, click, follow_up, replies, okey, akey, sel0, name, text, file, prompt) ==
    LET avail == available_models(okey, akey)
        sel == IF avail = available_models(openai_api_key, anthropic_api_key)
               THEN sel0 ELSE avail
    IN  /\ runs < MaxRuns
        /\ runs' = runs + 1
        /\ \E r \in {Script(click, act.model, follow_up, replies, conversation_history,
                         feedback_generated, okey, akey, sel, name, text, file,
                         prompt)} :
            LET stopped == "stopped" \in r.outcome
            IN  /\ openai_api_key' = okey
                /\ anthropic_api_key' = akey
                /\ selected_models' = sel
                /\ editor_name' = IF stopped THEN DefaultEditorName ELSE name
                /\ manuscript_input' = IF stopped THEN << >> ELSE text
                /\ uploaded_file' = IF stopped THEN << >> ELSE file
                /\ editor_prompt' = IF stopped THEN << >> ELSE prompt
                /\ conversation_history' = r.hist
                /\ feedback_generated' = r.fg
                /\ calls' = r.calls
                /\ doc' = r.doc
                /\ discarded' =
                       IF \/ click = "new"
                          \/ click = "run" /\ "InputIncomplete" \notin r.outcome
                       THEN {<<e.key, Len(e.value.messages)>> :
                                e \in Range(conversation_history)}
                       ELSE {}
                /\ last_action' = act
                /\ outcome' = r.outcome

\* editing a widget: no button is pressed in the run that follows
Edit(okey, akey, sel, name, text, file, prompt) ==
    Interaction(Action("Edit", ""), "none", << >>, NoReplies, okey, akey, sel, name, text, file, prompt)

Click(act, click, follow_up, replies) ==
    Interaction(act, click, follow_up, replies, openai_api_key, anthropic_api_key,
                selected_models, editor_name, manuscript_input, uploaded_file,
                editor_prompt)

\* Lines 13-16 and the first run: no key yet, the script stops at line 117
Init ==
    /\ openai_api_key = ""
    /\ anthropic_api_key = ""
    /\ selected_models = << >>
    /\ editor_name = DefaultEditorName
    /\ manuscript_input = << >>
    /\ uploaded_file = << >>
    /\ editor_prompt = << >>
    /\ conversation_history = << >>
    /\ feedback_generated = FALSE
    /\ calls = << >>
    /\ doc = << >>
    /\ discarded = {}
    /\ runs = 0
    /\ last_action = Action("Open", "")
    /\ outcome = {"stopped"}

\* Lines 77-82
EditOpenAIKey ==
    \E k \in ApiKeys \ {openai_api_key} :
        Edit(k, anthropic_api_key, selected_models,
             editor_name, manuscript_input, uploaded_file, editor_prompt)

\* Lines 87-92
EditAnthropicKey ==
    \E k \in ApiKeys \ {anthropic_api_key} :
        Edit(openai_api_key, k, selected_models,
             editor_name, manuscript_input, uploaded_file, editor_prompt)

\* Lines 120-125
SelectModels ==
    /\ available_models(openai_api_key, anthropic_api_key) # << >>
    /\ \E s \in Selections(available_models(openai_api_key, anthropic_api_key))
                    \ {selected_models} :
        Edit(openai_api_key, anthropic_api_key, s,
             editor_name, manuscript_input, uploaded_file, editor_prompt)

\* Lines 133-137
EditPersona ==
    /\ InputsShown
    /\ \E n \in PersonaNames \ {editor_name} :
        Edit(openai_api_key, anthropic_api_key,
             selected_models, n, manuscript_input, uploaded_file, editor_prompt)

\* Lines 141-145
EditManuscript ==
    /\ InputsShown
    /\ \E t \in ManuscriptTexts \ {manuscript_input} :
        Edit(openai_api_key, anthropic_api_key,
             selected_models, editor_name, t, uploaded_file, editor_prompt)

\* Lines 147-155: uploading a file, or removing the uploaded file
UploadFile ==
    /\ InputsShown
    /\ \E f \in ({<<c>> : c \in FileContents} \cup {<< >>}) \ {uploaded_file} :
        Edit(openai_api_key, anthropic_api_key,
             selected_models, editor_name, manuscript_input, f, editor_prompt)

\* Lines 159-163
EditPrompt ==
    /\ InputsShown
    /\ \E p \in FeedbackPrompts \ {editor_prompt} :
        Edit(openai_api_key, anthropic_api_key,
             selected_models, editor_name, manuscript_input, uploaded_file, p)

\* Lines 195-225: "Get Editorial Feedback"
ClickRun ==
    /\ InputsShown
    /\ \E replies \in [Range(selected_models) -> ProviderReplies] :
        Click(Action("StartSession", ""), "run", << >>, replies)

\* Lines 262-280 and 310-328: "Send to {model}"
ClickSend ==
    \E model \in SendButtons(conversation_history, feedback_generated,
                             selected_models) :
        \E follow_up \in FollowUpTexts, reply \in ProviderReplies :
            Click(Action("ContinueSession", model), "send", follow_up,
                     [m \in {model} |-> reply])

\* Lines 373-376: "Start New Session", shown when the export was reached
ClickNewSession ==
    /\ doc # << >>
    /\ Click(Action("NewSession", ""), "new", << >>, NoReplies)

Next ==
    \/ EditOpenAIKey
    \/ EditAnthropicKey
    \/ SelectModels
    \/ EditPersona
    \/ EditManuscript
    \/ UploadFile
    \/ EditPrompt
    \/ ClickRun
    \/ ClickSend
    \/ ClickNewSession

Spec == Init /\ [][Next]_vars

-----------------------------------------------------------------------------
(* Properties *)

Sessions == Range(conversation_history)

Roles(messages) == [i \in 1..Len(messages) |-> messages[i].role]

IsErrorText(content) == StartsWith(content, ErrorMarker)

\* the last interaction was a click on the run button with valid input
StartSessionDone ==
    /\ last_action.op = "StartSession"
    /\ "InputIncomplete" \notin outcome

\* the last interaction was a Send click with non-blank text
ContinueSessionDone ==
    /\ last_action.op = "ContinueSession"
    /\ calls # << >>

\* C1: every stored session's turn list starts with a user turn and strictly
\* alternates user, assistant, user, assistant, ...
C1_StrictAlternation ==
    \A e \in Sessions :
        \A i \in 1..Len(e.value.messages) :
            e.value.messages[i].role = IF i % 2 = 1 THEN "user" ELSE "assistant"

\* a session that went through a failing StartSession call and then through a
\* failing and a successful follow-up
C1_Witness ==
    \E e \in Sessions :
        /\ Len(e.value.messages) >= 6
        /\ IsErrorText(e.value.messages[2].content)
        /\ \E i, j \in 3..Len(e.value.messages) :
              /\ e.value.messages[i].role = "assistant"
              /\ e.value.messages[j].role = "assistant"
              /\ IsErrorText(e.value.messages[i].content)
              /\ ~IsErrorText(e.value.messages[j].content)

\* C2: a StartSession with non-empty manuscript and prompt ends with exactly
\* one session per selected model, each holding the initial user turn followed
\* by one assistant turn (success text or error-marked text)
C2_StartSessionShape ==
    StartSessionDone =>
        /\ Len(conversation_history) = Len(selected_models)
        /\ \A m \in Range(selected_models) :
              /\ Cardinality({i \in 1..Len(conversation_history) :
                                 conversation_history[i].key = m}) = 1
              /\ LET messages == DictGet(conversation_history, m).messages
                 IN  /\ Roles(messages) = <<"user", "assistant">>
                     /\ messages[1].content =
                            initial_message(ManuscriptText(manuscript_input,
                                                           uploaded_file),
                                            editor_prompt)
                     /\ messages[2].content # NoneText

\* a StartSession for several models, with a failed and a successful call
C2_Witness ==
    /\ StartSessionDone
    /\ Len(selected_models) >= 2
    /\ \E e1, e2 \in Sessions :
          /\ IsErrorText(e1.value.messages[2].content)
          /\ ~IsErrorText(e2.value.messages[2].content)

\* C3: in a StartSession, every selected backend is called, whatever the other
\* calls did, and a backend whose own call succeeds gets exactly the initial
\* user turn and its own stripped success text
C3_FailureIsolation ==
    StartSessionDone =>
        /\ [i \in 1..Len(calls) |-> calls[i].model] = selected_models
        /\ \A i \in 1..Len(calls) :
              LET c == calls[i]
                  initial == Message("user",
                                 initial_message(ManuscriptText(manuscript_input,
                                                                uploaded_file),
                                                 editor_prompt))
              IN  /\ c.messages = <<initial>>
                  /\ c.reply.ok =>
                        DictGet(conversation_history, c.model).messages
                            = <<initial, Message("assistant", Strip(c.reply.text))>>

\* a StartSession in which an earlier backend's call failed and a later
\* backend's call succeeded
C3_Witness ==
    /\ StartSessionDone
    /\ \E i, j \in 1..Len(calls) :
          /\ i < j
          /\ ~calls[i].reply.ok
          /\ calls[j].reply.ok

\* C4: after a successful StartSession the backends of the session state are
\* exactly the selected ones, and every turn stored is a turn of this
\* StartSession: the initial message or the response of one of its calls
C4_FullReset ==
    StartSessionDone =>
        /\ {e.key : e \in Sessions} = Range(selected_models)
        /\ \A e \in Sessions :
              /\ Len(e.value.messages) = 2
              /\ \E i \in 1..Len(calls) :
                    /\ calls[i].model = e.key
                    /\ e.value.messages
                          = Append(calls[i].messages,
                                   Message("assistant", calls[i].response))

\* a StartSession that threw away a session with follow-ups and the session of
\* a backend that is not selected now
C4_Witness ==
    /\ StartSessionDone
    /\ \E d \in discarded : d[2] > 2
    /\ \E d \in discarded : d[1] \notin Range(selected_models)

\* C5: a ContinueSession addressed at one backend leaves the session of every
\* other backend as it was
C5_OtherSessionsUntouched ==
    [][last_action'.op = "ContinueSession" =>
          /\ DictKeys(conversation_history') = DictKeys(conversation_history)
          /\ \A e \in Sessions :
                e.key # last_action'.model =>
                    DictGet(conversation_history', e.key) = e.value]_vars

\* an accepted follow-up whose backend call failed, with other backends in
\* the session state
C5_Witness ==
    /\ ContinueSessionDone
    /\ ~calls[1].reply.ok
    /\ Len(conversation_history) >= 2

\* C6: a results view for a selected backend without an entry in the session
\* state never ends in an unhandled failure
C6_NoUnhandledFailure ==
    (/\ feedback_generated
     /\ conversation_history # << >>
     /\ \E m \in Range(selected_models) : ~DictHas(conversation_history, m))
        => "KeyError" \notin outcome

\* the models of the export's backend sections, in document order
RECURSIVE SectionModels(_)
SectionModels(blocks) ==
    IF blocks = << >> THEN << >>
    ELSE (IF /\ Head(blocks).kind = "heading"
             /\ Head(blocks).level = 1
             /\ Head(Head(blocks).text) = "Conversation with "
          THEN <<Head(blocks).text[2]>> ELSE << >>)
         \o SectionModels(Tail(blocks))

\* C7: the export has one section per backend of the session state, in the
\* order of insertion
C7_SectionPerBackend ==
    doc # << >> => SectionModels(doc) = DictKeys(conversation_history)

\* C8: the export's persona, request and manuscript are those of the
\* StartSession that created the session state
C8_ExportShowsSessionInputs ==
    doc # << >> =>
        \A e \in Sessions :
            /\ e.value.system_prompt = system_prompt(Tail(doc[2].text))
            /\ e.value.messages[1].content
                   = initial_message(doc[6].text, Tail(doc[3].text))

\* C9: every backend call uses the system instruction stored for its backend,
\* and nothing but a reset changes the stored instruction
C9_FixedSystemInstruction ==
    [][/\ \A i \in 1..Len(calls') :
             calls'[i].system_prompt
                 = DictGet(conversation_history', calls'[i].model).system_prompt
       /\ \A e \in Sessions :
             DictHas(conversation_history', e.key)
             /\ last_action'.op \notin {"StartSession", "NewSession"}
                 => DictGet(conversation_history', e.key).system_prompt
                        = e.value.system_prompt]_vars

\* a follow-up sent after the persona field was edited
C9_Witness ==
    /\ ContinueSessionDone
    /\ calls[1].system_prompt # system_prompt(editor_name)

\* the blocks of the export section of model m
RECURSIVE UpToNextSection(_)
UpToNextSection(blocks) ==
    IF blocks = << >> \/ (Head(blocks).kind = "heading" /\ Head(blocks).level = 1)
    THEN << >>
    ELSE <<Head(blocks)>> \o UpToNextSection(Tail(blocks))

SectionOf(blocks, m) ==
    LET start == CHOOSE i \in 1..Len(blocks) :
                    blocks[i] = [kind |-> "heading", level |-> 1,
                                 text |-> <<"Conversation with ", m>>]
    IN  UpToNextSection(SubSeq(blocks, start + 1, Len(blocks)))

\* the <<label, content>> pairs of a section: each level-2 heading with the
\* paragraph that follows it
RECURSIVE Subsections(_)
Subsections(blocks) ==
    IF Len(blocks) < 2 THEN << >>
    ELSE IF Head(blocks).kind = "heading" /\ Head(blocks).level = 2
    THEN <<[label |-> Head(blocks).text, content |-> blocks[2].text]>>
             \o Subsections(Tail(Tail(blocks)))
    ELSE Subsections(Tail(blocks))

\* the label of turn j of a transcript
TurnLabel(messages, j) ==
    IF messages[j].role = "user"
    THEN IF j = 1 THEN <<"Original Request">> ELSE <<"Follow-up Question">>
    ELSE <<"Response">>

\* the turns of a transcript that are not error-marked assistant turns
ShownTurns(messages) ==
    SelectSeq([j \in 1..Len(messages) |->
                  [label |-> TurnLabel(messages, j),
                   content |-> messages[j].content,
                   error |-> messages[j].role = "assistant"
                                /\ IsErrorText(messages[j].content)]],
              LAMBDA t : ~t.error)

\* C10: in each backend section the subsections are, in transcript order, the
\* user turns and the assistant turns without error marker, labelled Original
\* Request, Follow-up Question and Response; the content of an error-marked
\* assistant turn appears in no paragraph of the section
C10_TurnLabels ==
    doc # << >> =>
        \A m \in Range(SectionModels(doc)) :
            LET messages == DictGet(conversation_history, m).messages
                section == SectionOf(doc, m)
            IN  /\ Subsections(section)
                      = [i \in 1..Len(ShownTurns(messages)) |->
                            [label |-> ShownTurns(messages)[i].label,
                             content |-> ShownTurns(messages)[i].content]]
                /\ \A i \in 1..Len(section), j \in 1..Len(messages) :
                      messages[j].role = "assistant"
                      /\ IsErrorText(messages[j].content)
                          => section[i].text # messages[j].content

\* an export with a section that holds a follow-up, a response and an
\* error-marked turn
C10_Witness ==
    /\ doc # << >>
    /\ \E m \in Range(SectionModels(doc)) :
          LET messages == DictGet(conversation_history, m).messages
          IN  /\ Len(messages) >= 4
              /\ \E i, j \in 1..Len(messages) :
                    /\ messages[i].role = "assistant"
                    /\ messages[j].role = "assistant"
                    /\ IsErrorText(messages[i].content)
                    /\ ~IsErrorText(messages[j].content)

\* C11: a click on the run button with an empty manuscript or an empty prompt
\* is reported as an error, calls no backend and leaves the conversation
\* history and the feedback_generated flag as they were
C11_InputIncompleteNoChange ==
    [][(/\ last_action'.op = "StartSession"
        /\ \/ ManuscriptText(manuscript_input', uploaded_file') = << >>
           \/ editor_prompt' = << >>)
          => /\ "InputIncomplete" \in outcome'
             /\ calls' = << >>
             /\ conversation_history' = conversation_history
             /\ feedback_generated' = feedback_generated]_vars

\* a rejected StartSession with a previous session in place
C11_Witness ==
    /\ last_action.op = "StartSession"
    /\ "InputIncomplete" \in outcome
    /\ feedback_generated
    /\ \E e \in Sessions : Len(e.value.messages) >= 4

\* C12: a Send click either is accepted, and then the follow-up appended and
\* sent is not blank, or is answered by the warning with no call made and the
\* conversation history unchanged
C12_BlankFollowUpRejected ==
    [][last_action'.op = "ContinueSession" =>
          \/ /\ "warning" \in outcome'
             /\ calls' = << >>
             /\ conversation_history' = conversation_history
          \/ /\ Len(calls') = 1
             /\ LET sent == calls'[1].messages
                IN  Strip(sent[Len(sent)].content) # << >>]_vars

\* a rejected follow-up
C12_Witness ==
    /\ last_action.op = "ContinueSession"
    /\ "warning" \in outcome
    /\ calls = << >>
    /\ conversation_history # << >>

\* C13: the turn list passed to get_ai_response is never empty and ends with
\* a user turn
C13_CallEndsWithUserTurn ==
    \A i \in 1..Len(calls) :
        /\ calls[i].messages # << >>
        /\ calls[i].messages[Len(calls[i].messages)].role = "user"

\* a follow-up call made on a transcript with earlier follow-ups
C13_Witness ==
    /\ ContinueSessionDone
    /\ Len(calls[1].messages) >= 5

IsPrefix(s, t) == Len(s) <= Len(t) /\ SubSeq(t, 1, Len(s)) = s

\* C14: an accepted ContinueSession keeps the addressed backend's turns as a
\* prefix, sends them plus the new user turn to the adapter and appends
\* exactly that user turn and the adapter's result; no interaction other than
\* a click on the run button or on Start New Session removes or rewrites a turn
C14_AppendOnly ==
    [][\A e \in Sessions :
          LET old == e.value.messages
              new == DictGet(conversation_history', e.key).messages
          IN  /\ last_action'.op \notin {"StartSession", "NewSession"} =>
                    /\ DictHas(conversation_history', e.key)
                    /\ IsPrefix(old, new)
              /\ (/\ last_action'.op = "ContinueSession"
                  /\ last_action'.model = e.key
                  /\ calls' # << >>) =>
                    /\ Len(calls') = 1
                    /\ calls'[1].model = e.key
                    /\ Len(calls'[1].messages) = Len(old) + 1
                    /\ IsPrefix(old, calls'[1].messages)
                    /\ calls'[1].messages[Len(old) + 1].role = "user"
                    /\ new = Append(calls'[1].messages,
                                    Message("assistant", calls'[1].response))]_vars

\* an accepted follow-up on a transcript that already holds a follow-up
C14_Witness ==
    /\ ContinueSessionDone
    /\ Len(DictGet(conversation_history, last_action.model).messages) >= 6
    /\ Len(conversation_history) >= 2

\* C15: a StartSession with valid input runs to its end and sets
\* feedback_generated, whichever calls fail; each failed call is stored as its
\* backend's assistant turn, the error marker followed by the exception text
C15_StartSessionCompletes ==
    StartSessionDone =>
        /\ feedback_generated
        /\ "KeyError" \notin outcome
        /\ doc # << >>
        /\ Len(calls) = Len(selected_models)
        /\ \A i \in 1..Len(calls) :
              ~calls[i].reply.ok =>
                  LET turn == DictGet(conversation_history, calls[i].model).messages[2]
                  IN  /\ turn.role = "assistant"
                      /\ IsErrorText(turn.content)
                      /\ turn.content = ErrorMarker \o <<" ">> \o calls[i].reply.text

\* a StartSession for several backends in which every call failed
C15_Witness ==
    /\ StartSessionDone
    /\ Len(calls) >= 2
    /\ \A i \in 1..Len(calls) : ~calls[i].reply.ok

\* the results view is drawn: the run passed the st.stop() calls and the test
\* of line 228
ResultsViewDrawn ==
    /\ "stopped" \notin outcome
    /\ feedback_generated
    /\ conversation_history # << >>

\* C16: whenever the results view is drawn, every selected model has an entry
\* in the conversation history
C16_SelectedModelsHaveEntries ==
    ResultsViewDrawn =>
        \A m \in Range(selected_models) : DictHas(conversation_history, m)

\* C17: feedback_generated is true exactly when the conversation history is
\* not empty; it becomes true only by a StartSession with valid input; Start
\* New Session resets both, and without the flag neither a Send button nor the
\* export is on the page
C17_FlagMatchesHistory ==
    [][/\ feedback_generated <=> conversation_history # << >>
       /\ feedback_generated' <=> conversation_history' # << >>
       /\ ~feedback_generated /\ feedback_generated' =>
             /\ last_action'.op = "StartSession"
             /\ "InputIncomplete" \notin outcome'
       /\ last_action'.op = "NewSession" =>
             /\ ~feedback_generated'
             /\ conversation_history' = << >>
       /\ ~feedback_generated' =>
             /\ doc' = << >>
             /\ SendButtons(conversation_history', feedback_generated',
                            selected_models') = {}]_vars

\* a Start New Session that threw away a session with a follow-up
C17_Witness ==
    /\ last_action.op = "NewSession"
    /\ \E d \in discarded : d[2] >= 4
    /\ ~feedback_generated

\* the texts of the AttributeError raised when a client is None
ClientMissingTexts ==
    { ErrorText(<<"'NoneType' object has no attribute 'chat'">>),
      ErrorText(<<"'NoneType' object has no attribute 'messages'">>) }

\* C18: every call is for a model of exactly one provider whose key is set,
\* so the request reaches that provider, and neither a call nor a stored
\* assistant turn has the missing value
C18_CallsRouted ==
    /\ \A i \in 1..Len(calls) :
          LET c == calls[i]
          IN  /\ \/ c.model \in Range(openai_models) /\ openai_api_key # ""
                    /\ c.model \notin Range(anthropic_models)
                 \/ c.model \in Range(anthropic_models) /\ anthropic_api_key # ""
                    /\ c.model \notin Range(openai_models)
              /\ c.response # NoneText
              /\ c.response \notin ClientMissingTexts
              /\ c.response = IF c.reply.ok THEN Strip(c.reply.text)
                              ELSE ErrorText(c.reply.text)
    /\ \A e \in Sessions :
          \A j \in 1..Len(e.value.messages) :
              e.value.messages[j].content # NoneText

\* a follow-up call made after the key of another backend of the session was
\* removed
C18_Witness ==
    /\ ContinueSessionDone
    /\ \E e \in Sessions :
          e.key \notin Range(available_models(openai_api_key, anthropic_api_key))

====
